---- MODULE Spec2Model ----
(***************************************************************************)
(* A model of acestep/training/dataset_builder.py: the AudioSample and     *)
(* DatasetMetadata records and the DatasetBuilder operations               *)
(* (scan_directory, label_sample, label_all_samples, update_sample,        *)
(* set_custom_tag, set_all_instrumental, save_dataset, load_dataset,       *)
(* preprocess_to_tensors).                                                 *)
(*                                                                         *)
(* Python strings are sequences of one-character strings, so that          *)
(* concatenation, strip(), splitext(), lower(), sorting and the substring   *)
(* test `"x" in s` are computed and not assumed.  Optional[int] is the      *)
(* empty sequence (None) or a one-element sequence <<n>>.                   *)
(***************************************************************************)
EXTENDS Integers, Sequences, FiniteSets, TLC

VARIABLES
    samples,      \* DatasetBuilder.samples: a sequence of AudioSample records
    metadata,     \* DatasetBuilder.metadata: a DatasetMetadata record
    current_dir,  \* DatasetBuilder._current_dir
    disk,         \* the dataset JSON file save_dataset writes and load_dataset reads
    outdir,       \* the output directory preprocess_to_tensors writes to
    uuid_ctr,     \* how many uuid4() values have been drawn
    clock,        \* how many builder calls have been made (datetime.now())
    budget,       \* how many builder calls the run makes
    batch,        \* the position of a running label_all_samples loop
    last          \* the last call made and what it returned

vars == <<samples, metadata, current_dir, disk, outdir, uuid_ctr, clock, budget, batch,
          last>>

-----------------------------------------------------------------------------
(* Bounds *)

\* The number of builder calls in one run.
MaxOps == 3

-----------------------------------------------------------------------------
(* Strings *)

\* The characters the model uses, in code point order.
Alphabet ==
    << "\n", " ", ",", ".", "/", "0", "1", "2", "3", "4", "5", "6", "7", "8", "9",
       "A", "B", "G", "I", "M", "P", "R", "[", "]",
       "a", "b", "c", "d", "e", "f", "g", "i", "k", "l", "m", "n", "o", "p", "q",
       "r", "s", "t", "u", "v", "w", "x", "z" >>

Code(c) == CHOOSE i \in 1..Len(Alphabet) : Alphabet[i] = c

\* str.lower() on one character.
LowerChar(c) ==
    CASE c = "A" -> "a" [] c = "B" -> "b" [] c = "G" -> "g" [] c = "I" -> "i"
      [] c = "M" -> "m" [] c = "P" -> "p" [] c = "R" -> "r" [] OTHER -> c

Lower(s) == [i \in 1..Len(s) |-> LowerChar(s[i])]

IsSpace(c) == c \in {" ", "\n"}

\* str.strip(): drop leading and trailing whitespace.
Strip(s) ==
    LET keep == {i \in 1..Len(s) : ~IsSpace(s[i])}
    IN  IF keep = {} THEN <<>>
        ELSE LET lo == CHOOSE i \in keep : \A j \in keep : i <= j
                 hi == CHOOSE i \in keep : \A j \in keep : j <= i
             IN  SubSeq(s, lo, hi)

\* Python's s < t on strings: lexicographic by code point.
StrLess(s, t) ==
    \E k \in 0..Len(s) :
        /\ k <= Len(t)
        /\ \A i \in 1..k : s[i] = t[i]
        /\ \/ (k = Len(s) /\ k < Len(t))
           \/ (k < Len(s) /\ k < Len(t) /\ Code(s[k + 1]) < Code(t[k + 1]))

\* list.sort() of a set of distinct strings.
RECURSIVE SortStrings(_)
SortStrings(S) ==
    IF S = {} THEN <<>>
    ELSE LET m == CHOOSE x \in S : \A y \in S \ {x} : StrLess(x, y)
         IN  <<m>> \o SortStrings(S \ {m})

\* s.startswith(p)
StartsWith(s, p) == Len(p) <= Len(s) /\ SubSeq(s, 1, Len(p)) = p

\* The index of the last "/" of a path, 0 when it has none.
LastSep(p) ==
    LET at == {i \in 1..Len(p) : p[i] = "/"}
    IN  IF at = {} THEN 0 ELSE CHOOSE i \in at : \A j \in at : j <= i

\* os.path.basename
Basename(p) == SubSeq(p, LastSep(p) + 1, Len(p))

\* Where os.path.splitext cuts: the last "." of the last component, unless only
\* dots come before it in that component; Len(p) + 1 when there is no extension.
SplitPoint(p) ==
    LET sep  == LastSep(p)
        dots == {i \in (sep + 1)..Len(p) : p[i] = "."}
    IN  IF dots = {} THEN Len(p) + 1
        ELSE LET d == CHOOSE i \in dots : \A j \in dots : j <= i
             IN  IF \A i \in (sep + 1)..(d - 1) : p[i] = "." THEN Len(p) + 1 ELSE d

SplitextRoot(p) == SubSeq(p, 1, SplitPoint(p) - 1)
SplitextExt(p) == SubSeq(p, SplitPoint(p), Len(p))

INSTRUMENTAL == << "[", "I", "n", "s", "t", "r", "u", "m", "e", "n", "t", "a", "l", "]" >>
UNKNOWN == << "u", "n", "k", "n", "o", "w", "n" >>
EMPTY == << >>
NONE == << >>

\* Python truthiness of a str, a list or an Optional[int] held as a sequence.
Truthy(s) == Len(s) > 0

-----------------------------------------------------------------------------
(* The file system the scanner reads *)

SUPPORTED_AUDIO_FORMATS ==
    { <<".", "w", "a", "v">>, <<".", "m", "p", "3">>, <<".", "f", "l", "a", "c">>,
      <<".", "o", "g", "g">>, <<".", "o", "p", "u", "s">> }

\* Every file on disk: its path; whether open()/torchaudio.info() can read it; the
\* container's frame count and sample rate (audio); its text (a .txt file).
FileSystem ==
    { [path |-> <<"p", "/", "a", ".", "w", "a", "v">>, readable |-> TRUE,
         num_frames |-> 480000, sample_rate |-> 48000, text |-> EMPTY],
      [path |-> <<"p", "/", "a", ".", "t", "x", "t">>, readable |-> TRUE,
         num_frames |-> 0, sample_rate |-> 0, text |-> <<" ", "l", "a", "\n">>],
      [path |-> <<"p", "/", "B", ".", "M", "P", "3">>, readable |-> TRUE,
         num_frames |-> 143999, sample_rate |-> 48000, text |-> EMPTY],
      [path |-> <<"p", "/", "n", ".", "p", "d", "f">>, readable |-> TRUE,
         num_frames |-> 0, sample_rate |-> 0, text |-> EMPTY],
      [path |-> <<"r", "/", "c", ".", "o", "g", "g">>, readable |-> TRUE,
         num_frames |-> 44100, sample_rate |-> 0, text |-> EMPTY],
      [path |-> <<"r", "/", "c", ".", "t", "x", "t">>, readable |-> TRUE,
         num_frames |-> 0, sample_rate |-> 0, text |-> <<" ", "\n">>],
      [path |-> <<"q", "/", "s", "/", "d", ".", "o", "p", "u", "s">>, readable |-> FALSE,
         num_frames |-> 0, sample_rate |-> 0, text |-> EMPTY],
      [path |-> <<"q", "/", "s", "/", "d", ".", "t", "x", "t">>, readable |-> FALSE,
         num_frames |-> 0, sample_rate |-> 0, text |-> <<"l", "a">>],
      [path |-> <<"q", "/", "t", ".", "f", "l", "a", "c">>, readable |-> TRUE,
         num_frames |-> 96000, sample_rate |-> 48000, text |-> EMPTY],
      [path |-> <<"e", "/", "r", ".", "t", "x", "t">>, readable |-> TRUE,
         num_frames |-> 0, sample_rate |-> 0, text |-> <<"l", "a">>] }

FilePaths == {f.path : f \in FileSystem}
FileAt(p) == CHOOSE f \in FileSystem : f.path = p

\* os.path.isdir: a proper prefix of a file's path that ends at a "/".
IsDir(d) == \E p \in FilePaths : StartsWith(p, d \o <<"/">>)
\* os.path.exists
Exists(p) == p \in FilePaths \/ IsDir(p)

\* The directory arguments scan_directory is called with.
ScanArgs ==
    { <<"p">>, <<"q">>, <<"r">>, <<"e">>,
      <<"p", "/", "n", ".", "p", "d", "f">>, <<"z">> }

-----------------------------------------------------------------------------
(* AudioSample *)

FieldNames ==
    { "id", "audio_path", "filename", "caption", "lyrics", "raw_lyrics",
      "formatted_lyrics", "bpm", "keyscale", "timesignature", "duration",
      "language", "is_instrumental", "custom_tag", "labeled" }

\* The dataclass defaults.
FieldDefaults ==
    [ id |-> EMPTY, audio_path |-> EMPTY, filename |-> EMPTY, caption |-> EMPTY,
      lyrics |-> INSTRUMENTAL, raw_lyrics |-> EMPTY, formatted_lyrics |-> EMPTY,
      bpm |-> NONE, keyscale |-> EMPTY, timesignature |-> EMPTY, duration |-> 0,
      language |-> UNKNOWN, is_instrumental |-> TRUE, custom_tag |-> EMPTY,
      labeled |-> FALSE ]

HexDigits ==
    << "0", "1", "2", "3", "4", "5", "6", "7", "8", "9", "a", "b", "c", "d", "e", "f" >>

\* str(uuid.uuid4())[:8]: the n-th value drawn, distinct from every other one.
Uuid(n) == << HexDigits[((n \div 16) % 16) + 1], HexDigits[(n % 16) + 1] >>

\* __post_init__ with n uuids drawn so far.
PostInit(s, n) == IF ~Truthy(s.id) THEN [s EXCEPT !.id = Uuid(n)] ELSE s
\* How many uuids __post_init__ draws.
PostInitDraws(s) == IF ~Truthy(s.id) THEN 1 ELSE 0

\* AudioSample(**kw): the defaults, the keyword arguments over them, __post_init__.
NewSample(kw, n) ==
    PostInit([k \in FieldNames |-> IF k \in DOMAIN kw THEN kw[k] ELSE FieldDefaults[k]], n)

has_raw_lyrics(s) == Truthy(s.raw_lyrics) /\ Truthy(Strip(s.raw_lyrics))

-----------------------------------------------------------------------------
(* Status messages *)

\* A status message is a sequence of text fragments.  The two marks are fragments
\* of their own; no other fragment contains a mark.
MARK_OK == "U+2705"
MARK_FAIL == "U+274C"

\* Whether a returned status reports success: it starts with the success mark.
IsSuccess(status) == Len(status) > 0 /\ status[1] = MARK_OK

\* Python's `"<success mark>" in status`.
ContainsOkMark(status) == \E i \in 1..Len(status) : status[i] = MARK_OK

\* What a call returned: its status, and the counts label_all_samples reports in it.
\* For a label_sample call that succeeded: the format_lyrics argument it was given
\* and the lyrics text of the engine's metadata.  For preprocess_to_tensors: the
\* dit_handler argument, the list of paths it returned and what happened to each
\* labeled sample.  For load_dataset: its dataset_path argument.
Returned(op, idx, status) ==
    [op |-> op, idx |-> idx, status |-> status, raised |-> FALSE,
     success_count |-> 0, fail_count |-> 0, total |-> 0, attempts |-> <<>>,
     true_success |-> 0, true_fail |-> 0,
     format_lyrics |-> FALSE, llm_lyrics |-> <<>>,
     dit_handler |-> "", output_paths |-> <<>>, items |-> <<>>,
     dataset_path |-> ""]

-----------------------------------------------------------------------------
(* DatasetMetadata *)

\* datetime.now().isoformat() at time t: a non-empty string.
Timestamp(t) == <<t>>

TagPositions == {"prepend", "append", "replace", "middle"}

\* DatasetMetadata(**kw).__post_init__ at time t.
NewMetadata(name, custom_tag, tag_position, created_at, num_samples, all_instrumental, t) ==
    [ name |-> name, custom_tag |-> custom_tag, tag_position |-> tag_position,
      created_at |-> IF ~Truthy(created_at) THEN Timestamp(t) ELSE created_at,
      num_samples |-> num_samples, all_instrumental |-> all_instrumental ]

UNTITLED_DATASET == "untitled_dataset"

-----------------------------------------------------------------------------
(* DatasetBuilder.__init__ *)

\* No label_all_samples loop is running.  A running loop is at sample i, with the
\* counts the code keeps, the indices it has passed to label_sample, and how many
\* of those calls returned a success status and how many a failure status.
NoBatch == [active |-> FALSE, i |-> 0, success_count |-> 0, fail_count |-> 0,
            format_lyrics |-> FALSE, attempts |-> <<>>,
            true_success |-> 0, true_fail |-> 0]

\* A dataset file: absent, malformed (a write that failed midway), or a JSON
\* document, held as the one element of `data`.  An element of the document's
\* "samples" list is a JSON object, held with its keys and values, or a string.
JsonObject(fields) == [type |-> "object", fields |-> fields]
JsonString == [type |-> "string"]

NoDisk == [kind |-> "absent", data |-> <<>>]
MalformedDisk == [kind |-> "malformed", data |-> <<>>]
JsonDisk(document) == [kind |-> "json", data |-> <<document>>]

\* The output directory: whether it exists, the tensor files in it, and its manifest
\* (none, or the one element of `manifest`).
NoOutput == [exists |-> FALSE, files |-> {}, manifest |-> <<>>]

Constructed ==
    /\ samples = <<>>
    /\ metadata = NewMetadata(UNTITLED_DATASET, EMPTY, "prepend", EMPTY, 0, TRUE, 0)
    /\ current_dir = EMPTY
    /\ disk = NoDisk
    /\ outdir = NoOutput
    /\ uuid_ctr = 0
    /\ clock = 0
    /\ batch = NoBatch
    /\ last = Returned("__init__", 0, <<>>)

Init == Constructed /\ budget = MaxOps

\* The same builder, for a run of one more call.
InitLong == Constructed /\ budget = MaxOps + 1

\* A call can start: no label_all_samples loop is running, and the run is not over.
CanCall == ~batch.active /\ clock < budget

\* Every call advances the clock.
Tick == clock' = clock + 1 /\ UNCHANGED budget

-----------------------------------------------------------------------------
(* DatasetBuilder.scan_directory *)

\* _get_audio_duration: int(num_frames / sample_rate), 0 on any exception.
get_audio_duration(audio_path) ==
    LET info == FileAt(audio_path)
    IN  IF ~info.readable \/ info.sample_rate = 0 THEN 0
        ELSE info.num_frames \div info.sample_rate

\* _load_lyrics_file without the strip() of what it read.
load_lyrics_file_unstripped(audio_path) ==
    LET lyrics_path == SplitextRoot(audio_path) \o <<".", "t", "x", "t">>
    IN  IF lyrics_path \in FilePaths
        THEN IF FileAt(lyrics_path).readable
             THEN LET lyrics_content == FileAt(lyrics_path).text
                  IN  IF Truthy(lyrics_content) THEN <<lyrics_content, TRUE>>
                      ELSE <<EMPTY, FALSE>>
             ELSE <<EMPTY, FALSE>>
        ELSE <<EMPTY, FALSE>>

\* _load_lyrics_file: <<lyrics_content, has_lyrics_file>>.
load_lyrics_file(audio_path) ==
    LET lyrics_path == SplitextRoot(audio_path) \o <<".", "t", "x", "t">>
    IN  IF lyrics_path \in FilePaths
        THEN IF FileAt(lyrics_path).readable
             THEN LET lyrics_content == Strip(FileAt(lyrics_path).text)
                  IN  IF Truthy(lyrics_content) THEN <<lyrics_content, TRUE>>
                      ELSE <<EMPTY, FALSE>>
             ELSE <<EMPTY, FALSE>>
        ELSE <<EMPTY, FALSE>>

\* The walk with the extension compared as it is spelled, without lower().
WalkAudioFiles_case_sensitive(directory) ==
    { p \in FilePaths : /\ StartsWith(p, directory \o <<"/">>)
                        /\ SplitextExt(Basename(p)) \in SUPPORTED_AUDIO_FORMATS }

\* os.walk(directory) filtered by extension: the audio files under the directory.
WalkAudioFiles(directory) ==
    { p \in FilePaths : /\ StartsWith(p, directory \o <<"/">>)
                        /\ Lower(SplitextExt(Basename(p))) \in SUPPORTED_AUDIO_FORMATS }

\* The AudioSample the scan loop builds for one file, with n uuids drawn so far.
ScannedSample(audio_path, md, n) ==
    LET duration        == get_audio_duration(audio_path)
        loaded          == load_lyrics_file(audio_path)
        lyrics_content  == loaded[1]
        has_lyrics_file == loaded[2]
        is_instrumental == IF has_lyrics_file THEN FALSE ELSE md.all_instrumental
    IN  NewSample([ audio_path |-> audio_path,
                    filename |-> Basename(audio_path),
                    duration |-> duration,
                    is_instrumental |-> is_instrumental,
                    custom_tag |-> md.custom_tag,
                    lyrics |-> IF has_lyrics_file THEN lyrics_content ELSE INSTRUMENTAL,
                    raw_lyrics |-> IF has_lyrics_file THEN lyrics_content ELSE EMPTY ], n)

scan_directory(directory) ==
    /\ CanCall
    /\ Tick
    /\ UNCHANGED <<disk, outdir, batch>>
    /\ IF ~Exists(directory)
       THEN /\ last' = Returned("scan_directory", 0, <<MARK_FAIL, " Directory not found">>)
            /\ UNCHANGED <<samples, metadata, current_dir, uuid_ctr>>
       ELSE IF ~IsDir(directory)
       THEN /\ last' = Returned("scan_directory", 0, <<MARK_FAIL, " Not a directory">>)
            /\ UNCHANGED <<samples, metadata, current_dir, uuid_ctr>>
       ELSE LET audio_files == SortStrings(WalkAudioFiles(directory))
            IN  /\ current_dir' = directory
                /\ IF audio_files = <<>>
                   THEN /\ samples' = <<>>
                        /\ last' = Returned("scan_directory", 0,
                                            <<MARK_FAIL, " No audio files found">>)
                        /\ UNCHANGED <<metadata, uuid_ctr>>
                   ELSE /\ samples' = [i \in 1..Len(audio_files) |->
                                          ScannedSample(audio_files[i], metadata,
                                                        uuid_ctr + i - 1)]
                        /\ uuid_ctr' = uuid_ctr + Len(audio_files)
                        /\ metadata' = [metadata EXCEPT !.num_samples = Len(samples')]
                        /\ last' = Returned("scan_directory", 0, <<MARK_OK, " Found">>)

-----------------------------------------------------------------------------
(* The two engines and the progress callback, as label_sample sees them *)

\* Values the captioning engine puts under 'bpm'.
BpmInt(n) == [kind |-> "int", n |-> n]          \* 120
BpmDigits(n) == [kind |-> "digits", n |-> n]    \* "98"
BpmNA == [kind |-> "N/A", n |-> 0]              \* "N/A"
BpmText == [kind |-> "text", n |-> 0]           \* "fast"
BpmInf == [kind |-> "inf", n |-> 0]             \* float("inf")
BpmNone == [kind |-> "None", n |-> 0]           \* None

LlmCaption == <<"b">>
LlmLyrics == <<"o", "o">>
LlmKeyscale == <<"A", "m">>
LlmTimesignature == <<"4">>
LlmLanguage == <<"e", "n">>

FullMetadata(bpm, lyrics) ==
    [ caption |-> LlmCaption, bpm |-> bpm, keyscale |-> LlmKeyscale,
      timesignature |-> LlmTimesignature, vocal_language |-> LlmLanguage,
      lyrics |-> lyrics ]

\* The metadata objects understand_audio_from_codes returns: dicts with every key,
\* and one with the caption alone.
MetadataDicts ==
    { FullMetadata(bpm, LlmLyrics) : bpm \in {BpmInt(120), BpmNA, BpmInf} }
    \cup { FullMetadata(BpmDigits(98), EMPTY), FullMetadata(BpmText, EMPTY) }
    \cup { [caption |-> LlmCaption] }

\* Status texts and exception messages of the engines and the callback.
PlainText == <<"out of memory">>
MarkedText == <<"see ", MARK_OK, " in the log">>
OverflowMessage == <<"cannot convert float infinity to integer">>
AttributeMessage == <<"'list' object has no attribute 'get'">>

\* One run of the collaborators on one sample:
\*   raise_at  the progress callback raises at its raise_at-th call (0: never)
\*   dit       what convert_src_audio_to_codes does
\*   llm       whether understand_audio_from_codes returns or raises
\*   result    what kind of metadata object it returns, and `dict` the object
\*   status    its status text, or the message of the exception raised
Run(raise_at, dit, llm, result, dict, status) ==
    [raise_at |-> raise_at, dit |-> dit, llm |-> llm, result |-> result,
     dict |-> dict, status |-> status]

EmptyDict == [caption |-> EMPTY]

EngineRuns ==
    { Run(n, "codes", "returns", "dict", FullMetadata(BpmInt(120), LlmLyrics), PlainText) :
        n \in 1..3 }
    \cup { Run(0, d, "returns", "None", EmptyDict, PlainText) :
             d \in {"empty", "fail_mark", "raises", "no_method"} }
    \cup { Run(0, "codes", "raises", "None", EmptyDict, t) : t \in {PlainText, MarkedText} }
    \cup { Run(0, "codes", "returns", "None", EmptyDict, t) :
             t \in {PlainText, MarkedText} }
    \cup { Run(0, "codes", "returns", r, EmptyDict, PlainText) : r \in {"empty_dict", "list"} }
    \cup { Run(0, "codes", "returns", "dict", md, PlainText) : md \in MetadataDicts }

\* _get_audio_codes: whether it returns codes (and not None).
get_audio_codes(run) == run.dit = "codes"

\* _parse_int: the value returned, or the exception it lets through.
parse_int(value) ==
    CASE value.kind \in {"None", "N/A", "empty"} -> [raised |-> FALSE, value |-> NONE]
      [] value.kind \in {"int", "digits"} -> [raised |-> FALSE, value |-> <<value.n>>]
      [] value.kind = "text" -> [raised |-> FALSE, value |-> NONE]
      [] value.kind = "inf" -> [raised |-> TRUE, value |-> NONE]

\* dict.get(key, default)
Get(d, key, default) == IF key \in DOMAIN d THEN d[key] ELSE default

\* What label_sample returns for a sample: the record as the call leaves it, and
\* the status.
Outcome(sample, status) == [sample |-> sample, status |-> status]

\* Step 4 with the engine's lyrics also stored as raw_lyrics.
ResolveLyrics_raw_overwritten(s, llm_lyrics, has_preloaded_lyrics, format_lyrics) ==
    LET resolved ==
            IF s.is_instrumental
            THEN [s EXCEPT !.lyrics = INSTRUMENTAL, !.language = UNKNOWN,
                           !.formatted_lyrics = EMPTY]
            ELSE IF has_preloaded_lyrics
            THEN IF format_lyrics
                 THEN [s EXCEPT !.formatted_lyrics = llm_lyrics,
                                !.raw_lyrics = llm_lyrics,
                                !.lyrics = IF Truthy(llm_lyrics) THEN llm_lyrics
                                           ELSE s.raw_lyrics]
                 ELSE [s EXCEPT !.lyrics = s.raw_lyrics, !.formatted_lyrics = EMPTY]
            ELSE [s EXCEPT !.lyrics = llm_lyrics, !.formatted_lyrics = llm_lyrics]
    IN  [resolved EXCEPT !.labeled = TRUE]

\* Step 4 with the instrumental branch leaving the engine's language in place.
ResolveLyrics_language_kept(s, llm_lyrics, has_preloaded_lyrics, format_lyrics) ==
    LET resolved ==
            IF s.is_instrumental
            THEN [s EXCEPT !.lyrics = INSTRUMENTAL, !.formatted_lyrics = EMPTY]
            ELSE IF has_preloaded_lyrics
            THEN IF format_lyrics
                 THEN [s EXCEPT !.formatted_lyrics = llm_lyrics,
                                !.lyrics = IF Truthy(llm_lyrics) THEN llm_lyrics
                                           ELSE s.raw_lyrics]
                 ELSE [s EXCEPT !.lyrics = s.raw_lyrics, !.formatted_lyrics = EMPTY]
            ELSE [s EXCEPT !.lyrics = llm_lyrics, !.formatted_lyrics = llm_lyrics]
    IN  [resolved EXCEPT !.labeled = TRUE]

\* Step 4 with the formatted branch taking the engine's lyrics even when empty.
ResolveLyrics_no_fallback(s, llm_lyrics, has_preloaded_lyrics, format_lyrics) ==
    LET resolved ==
            IF s.is_instrumental
            THEN [s EXCEPT !.lyrics = INSTRUMENTAL, !.language = UNKNOWN,
                           !.formatted_lyrics = EMPTY]
            ELSE IF has_preloaded_lyrics
            THEN IF format_lyrics
                 THEN [s EXCEPT !.formatted_lyrics = llm_lyrics, !.lyrics = llm_lyrics]
                 ELSE [s EXCEPT !.lyrics = s.raw_lyrics, !.formatted_lyrics = EMPTY]
            ELSE [s EXCEPT !.lyrics = llm_lyrics, !.formatted_lyrics = llm_lyrics]
    IN  [resolved EXCEPT !.labeled = TRUE]

\* Step 4 of label_sample: the lyrics branch, then labeled = True.
ResolveLyrics(s, llm_lyrics, has_preloaded_lyrics, format_lyrics) ==
    LET resolved ==
            IF s.is_instrumental
            THEN [s EXCEPT !.lyrics = INSTRUMENTAL, !.language = UNKNOWN,
                           !.formatted_lyrics = EMPTY]
            ELSE IF has_preloaded_lyrics
            THEN IF format_lyrics
                 THEN [s EXCEPT !.formatted_lyrics = llm_lyrics,
                                !.lyrics = IF Truthy(llm_lyrics) THEN llm_lyrics
                                           ELSE s.raw_lyrics]
                 ELSE [s EXCEPT !.lyrics = s.raw_lyrics, !.formatted_lyrics = EMPTY]
            ELSE [s EXCEPT !.lyrics = llm_lyrics, !.formatted_lyrics = llm_lyrics]
    IN  [resolved EXCEPT !.labeled = TRUE]

\* Step 3 of label_sample and what follows it, for a metadata dict.
CommitMetadata(sample, md, has_preloaded_lyrics, format_lyrics) ==
    LET s1  == [sample EXCEPT !.caption = Get(md, "caption", EMPTY)]
        bpm == parse_int(Get(md, "bpm", BpmNone))
    IN  IF bpm.raised
        THEN Outcome(s1, <<MARK_FAIL, " Error: ">> \o OverflowMessage)
        ELSE LET s2 == [s1 EXCEPT !.bpm = bpm.value,
                                  !.keyscale = Get(md, "keyscale", EMPTY),
                                  !.timesignature = Get(md, "timesignature", EMPTY),
                                  !.language = Get(md, "vocal_language", UNKNOWN)]
                 llm_lyrics == Get(md, "lyrics", EMPTY)
                 s3 == ResolveLyrics(s2, llm_lyrics, has_preloaded_lyrics, format_lyrics)
                 suffix == IF has_preloaded_lyrics
                           THEN IF format_lyrics THEN <<" (lyrics formatted by LM)">>
                                ELSE <<" (using raw lyrics)">>
                           ELSE <<>>
             IN  Outcome(s3, <<MARK_OK, " Labeled: ">> \o s3.filename \o suffix)

\* The body of label_sample for a valid index.  calls_before: how many times the
\* progress callback was called before label_sample (by label_all_samples).
LabelOutcome(sample, run, format_lyrics, calls_before) ==
    LET has_preloaded_lyrics == has_raw_lyrics(sample) /\ ~sample.is_instrumental
        cb_raises(k) == run.raise_at = calls_before + k
        error(msg) == Outcome(sample, <<MARK_FAIL, " Error: ">> \o msg)
    IN  IF cb_raises(1) THEN error(run.status)
        ELSE IF ~get_audio_codes(run)
        THEN Outcome(sample, <<MARK_FAIL, " Failed to encode audio: ">> \o sample.filename)
        ELSE IF cb_raises(2) THEN error(run.status)
        ELSE IF run.llm = "raises" THEN error(run.status)
        ELSE IF run.result \in {"None", "empty_dict"}
        THEN Outcome(sample, <<MARK_FAIL, " LLM labeling failed: ">> \o run.status)
        ELSE IF run.result = "list" THEN error(AttributeMessage)
        ELSE CommitMetadata(sample, run.dict, has_preloaded_lyrics, format_lyrics)

\* The engine runs label_sample is called with, and its format_lyrics argument
\* (which only a run that reaches the lyrics branch reads).
LabelArgs ==
    { [run |-> run, format_lyrics |-> FALSE] : run \in EngineRuns }
    \cup { [run |-> run, format_lyrics |-> TRUE] :
             run \in {r \in EngineRuns : r.result = "dict"} }

\* The sample_idx arguments: every index of the collection, and one on each side.
IndexArgs == 0..(Len(samples) + 1)
ValidIndex(sample_idx) == sample_idx >= 1 /\ sample_idx <= Len(samples)

label_sample(sample_idx, run, format_lyrics) ==
    /\ CanCall
    /\ Tick
    /\ UNCHANGED <<metadata, current_dir, disk, outdir, uuid_ctr, batch>>
    /\ IF ~ValidIndex(sample_idx)
       THEN /\ last' = Returned("label_sample", sample_idx,
                                <<MARK_FAIL, " Invalid sample index">>)
            /\ UNCHANGED samples
       ELSE LET out == LabelOutcome(samples[sample_idx], run, format_lyrics, 0)
                ok  == IsSuccess(out.status)
            IN  /\ samples' = [samples EXCEPT ![sample_idx] = out.sample]
                /\ last' = [Returned("label_sample", sample_idx, out.status) EXCEPT
                                !.format_lyrics = ok /\ format_lyrics,
                                !.llm_lyrics = IF ok THEN Get(run.dict, "lyrics", EMPTY)
                                               ELSE <<>>]

-----------------------------------------------------------------------------
(* DatasetBuilder.label_all_samples: the call, then one loop iteration a step *)

label_all_samples(format_lyrics) ==
    /\ CanCall
    /\ Tick
    /\ UNCHANGED <<samples, metadata, current_dir, disk, outdir, uuid_ctr>>
    /\ IF ~Truthy(samples)
       THEN /\ last' = Returned("label_all_samples", 0,
                                <<MARK_FAIL, " No samples to label">>)
            /\ UNCHANGED batch
       ELSE /\ batch' = [NoBatch EXCEPT !.active = TRUE, !.i = 1,
                                        !.format_lyrics = format_lyrics]
            /\ last' = [Returned("label_all_samples", 0, <<>>) EXCEPT
                            !.total = Len(samples)]

\* What label_all_samples returns after the loop.
BatchReturn(b, total) ==
    [ Returned("label_all_samples", 0,
               <<MARK_OK, " Labeled">>
                 \o (IF b.fail_count > 0 THEN <<" (failed)">> ELSE <<>>))
        EXCEPT !.success_count = b.success_count, !.fail_count = b.fail_count,
               !.total = total, !.attempts = b.attempts,
               !.true_success = b.true_success, !.true_fail = b.true_fail ]

\* One iteration of the loop: the progress callback, label_sample(i, ...), the
\* counts; after the last sample, the return.
label_all_step(run) ==
    /\ batch.active
    /\ UNCHANGED <<metadata, current_dir, disk, outdir, uuid_ctr, clock, budget>>
    /\ IF run.raise_at = 1
       THEN \* the callback raises outside label_sample's try: the call ends here
            /\ batch' = NoBatch
            /\ last' = [Returned("label_all_samples", batch.i, run.status) EXCEPT
                            !.raised = TRUE, !.total = Len(samples),
                            !.attempts = batch.attempts,
                            !.success_count = batch.success_count,
                            !.fail_count = batch.fail_count,
                            !.true_success = batch.true_success,
                            !.true_fail = batch.true_fail]
            /\ UNCHANGED samples
       ELSE LET out == LabelOutcome(samples[batch.i], run, batch.format_lyrics, 1)
                counted == ContainsOkMark(out.status)
                b == [batch EXCEPT
                        !.i = batch.i + 1,
                        !.attempts = Append(batch.attempts, batch.i),
                        !.success_count = IF counted THEN @ + 1 ELSE @,
                        !.fail_count = IF counted THEN @ ELSE @ + 1,
                        !.true_success = IF IsSuccess(out.status) THEN @ + 1 ELSE @,
                        !.true_fail = IF IsSuccess(out.status) THEN @ ELSE @ + 1]
            IN  /\ samples' = [samples EXCEPT ![batch.i] = out.sample]
                /\ IF batch.i < Len(samples)
                   THEN /\ batch' = b
                        /\ UNCHANGED last
                   ELSE /\ batch' = NoBatch
                        /\ last' = BatchReturn(b, Len(samples))

-----------------------------------------------------------------------------
(* DatasetBuilder.update_sample, set_custom_tag, set_all_instrumental *)

UserText == <<"l", "a">>
BlankText == <<" ">>
UserTag == <<"R">>
\* An id that a sample of a stored dataset file has.
TakenId == <<"x", "1">>

\* The keyword arguments update_sample is called with.
UpdateArgs ==
    { [caption |-> <<"c">>], [lyrics |-> UserText], [raw_lyrics |-> UserText],
      [raw_lyrics |-> BlankText],
      [formatted_lyrics |-> UserText], [bpm |-> <<90>>], [duration |-> 7],
      [keyscale |-> <<"G">>, timesignature |-> <<"3">>],
      [is_instrumental |-> TRUE], [is_instrumental |-> FALSE],
      [custom_tag |-> UserTag], [labeled |-> TRUE], [labeled |-> FALSE],
      [id |-> EMPTY], [id |-> TakenId], [audio_path |-> <<"z">>, filename |-> <<"z">>],
      [genre |-> <<"x">>],
      [is_instrumental |-> FALSE, lyrics |-> UserText, language |-> LlmLanguage] }

\* for key, value in kwargs.items(): if hasattr(sample, key): setattr(...)
SetAttrs(sample, kwargs) ==
    [k \in FieldNames |-> IF k \in DOMAIN kwargs THEN kwargs[k] ELSE sample[k]]

update_sample(sample_idx, kwargs) ==
    /\ CanCall
    /\ Tick
    /\ UNCHANGED <<metadata, current_dir, disk, outdir, uuid_ctr, batch>>
    /\ IF ~ValidIndex(sample_idx)
       THEN /\ last' = Returned("update_sample", sample_idx,
                                <<MARK_FAIL, " Invalid sample index">>)
            /\ UNCHANGED samples
       ELSE /\ samples' = [samples EXCEPT ![sample_idx] = SetAttrs(@, kwargs)]
            /\ last' = Returned("update_sample", sample_idx,
                                <<MARK_OK, " Updated: ">> \o samples'[sample_idx].filename)

\* The arguments set_custom_tag is called with.
TagArgs ==
    { [custom_tag |-> UserTag, tag_position |-> pos] : pos \in TagPositions }
    \cup { [custom_tag |-> EMPTY, tag_position |-> "replace"] }

set_custom_tag(custom_tag, tag_position) ==
    /\ CanCall
    /\ Tick
    /\ UNCHANGED <<current_dir, disk, outdir, uuid_ctr, batch>>
    /\ metadata' = [metadata EXCEPT !.custom_tag = custom_tag,
                                    !.tag_position = tag_position]
    /\ samples' = [i \in 1..Len(samples) |-> [samples[i] EXCEPT !.custom_tag = custom_tag]]
    /\ last' = Returned("set_custom_tag", 0, <<>>)

set_all_instrumental(is_instrumental) ==
    /\ CanCall
    /\ Tick
    /\ UNCHANGED <<current_dir, disk, outdir, uuid_ctr, batch>>
    /\ metadata' = [metadata EXCEPT !.all_instrumental = is_instrumental]
    /\ samples' = [i \in 1..Len(samples) |->
                     IF is_instrumental
                     THEN [samples[i] EXCEPT !.is_instrumental = TRUE,
                                             !.lyrics = INSTRUMENTAL,
                                             !.language = UNKNOWN]
                     ELSE [samples[i] EXCEPT !.is_instrumental = FALSE]]
    /\ last' = Returned("set_all_instrumental", 0, <<>>)

-----------------------------------------------------------------------------
(* AudioSample.get_full_caption, save_dataset, load_dataset *)

COMMA == <<",", " ">>

\* get_full_caption with append putting the tag first, as prepend does.
get_full_caption_append_as_prepend(s, tag_position) ==
    IF ~Truthy(s.custom_tag) THEN s.caption
    ELSE IF tag_position = "prepend"
    THEN IF Truthy(s.caption) THEN s.custom_tag \o COMMA \o s.caption ELSE s.custom_tag
    ELSE IF tag_position = "append"
    THEN IF Truthy(s.caption) THEN s.custom_tag \o COMMA \o s.caption ELSE s.custom_tag
    ELSE IF tag_position = "replace" THEN s.custom_tag
    ELSE s.caption

get_full_caption(s, tag_position) ==
    IF ~Truthy(s.custom_tag) THEN s.caption
    ELSE IF tag_position = "prepend"
    THEN IF Truthy(s.caption) THEN s.custom_tag \o COMMA \o s.caption ELSE s.custom_tag
    ELSE IF tag_position = "append"
    THEN IF Truthy(s.caption) THEN s.caption \o COMMA \o s.custom_tag ELSE s.custom_tag
    ELSE IF tag_position = "replace" THEN s.custom_tag
    ELSE s.caption

\* The entry save_dataset writes for a sample: to_dict(), with the caption replaced.
SavedSample(s, tag_position) ==
    [s EXCEPT !.caption = get_full_caption(s, tag_position)]

\* The dataset_name argument (None is ""), and what the file system does to the
\* write: it succeeds, open() fails, or the write fails midway and leaves a
\* truncated file.
SaveArgs ==
    { [dataset_name |-> "", io |-> "ok"], [dataset_name |-> "my_dataset", io |-> "ok"],
      [dataset_name |-> "", io |-> "open_fails"],
      [dataset_name |-> "", io |-> "write_fails"] }

save_dataset(dataset_name, io) ==
    /\ CanCall
    /\ Tick
    /\ UNCHANGED <<samples, current_dir, outdir, uuid_ctr, batch>>
    /\ IF ~Truthy(samples)
       THEN /\ last' = Returned("save_dataset", 0, <<MARK_FAIL, " No samples to save">>)
            /\ UNCHANGED <<metadata, disk>>
       ELSE /\ metadata' = [metadata EXCEPT
                               !.name = IF dataset_name # "" THEN dataset_name ELSE @,
                               !.num_samples = Len(samples),
                               !.created_at = Timestamp(clock')]
            /\ LET document ==
                       [ metadata |-> metadata',
                         samples |-> [i \in 1..Len(samples) |->
                                        JsonObject(SavedSample(samples[i],
                                                               metadata'.tag_position))] ]
               IN  CASE io = "ok" ->
                          /\ disk' = JsonDisk(document)
                          /\ last' = Returned("save_dataset", 0,
                                              <<MARK_OK, " Dataset saved">>)
                     [] io = "open_fails" ->
                          /\ disk' = disk
                          /\ last' = Returned("save_dataset", 0,
                                              <<MARK_FAIL, " Failed to save dataset: ">>)
                     [] io = "write_fails" ->
                          /\ disk' = MalformedDisk
                          /\ last' = Returned("save_dataset", 0,
                                              <<MARK_FAIL, " Failed to save dataset: ">>)

\* from_dict with an absent raw_lyrics taken from the entry's lyrics.
from_dict_raw_from_lyrics(data, n) ==
    LET valid_keys == FieldNames
        keys == ((DOMAIN data) \cap valid_keys) \cup {"raw_lyrics"}
        filtered_data == [k \in keys |-> IF k \in DOMAIN data THEN data[k]
                                         ELSE Get(data, "lyrics", EMPTY)]
    IN  NewSample(filtered_data, n)

\* AudioSample.from_dict: the recognized keys of the entry, over the defaults.
from_dict(data, n) ==
    LET valid_keys == FieldNames
        filtered_data == [k \in (DOMAIN data) \cap valid_keys |-> data[k]]
    IN  NewSample(filtered_data, n)

\* How many uuids the first k entries of a document draw when loaded.
RECURSIVE DrawsBefore(_, _)
DrawsBefore(entries, k) ==
    IF k = 0 THEN 0
    ELSE DrawsBefore(entries, k - 1)
         + (IF "id" \in DOMAIN entries[k].fields /\ Truthy(entries[k].fields.id)
            THEN 0 ELSE 1)

\* A dataset file of an earlier version: its metadata has no created_at,
\* num_samples or all_instrumental, its entries have no raw_lyrics and no
\* formatted_lyrics and carry a key that is no field ("genre"); the second entry
\* has only a few of the fields.
LegacyDocument ==
    [ metadata |-> [ name |-> "old_dataset", custom_tag |-> EMPTY,
                     tag_position |-> "append" ],
      samples |->
        << JsonObject([ id |-> TakenId,
                        audio_path |-> <<"p", "/", "a", ".", "w", "a", "v">>,
                        filename |-> <<"a", ".", "w", "a", "v">>,
                        caption |-> LlmCaption, lyrics |-> UserText, bpm |-> <<120>>,
                        keyscale |-> LlmKeyscale, timesignature |-> LlmTimesignature,
                        duration |-> 10, language |-> LlmLanguage,
                        is_instrumental |-> FALSE, custom_tag |-> EMPTY,
                        labeled |-> TRUE, genre |-> <<"x">> ]),
           JsonObject([ audio_path |-> <<"p", "/", "B", ".", "M", "P", "3">>,
                        filename |-> <<"B", ".", "M", "P", "3">>,
                        caption |-> LlmCaption, labeled |-> TRUE,
                        genre |-> <<"x">> ]) >> ]

\* A dataset file that is valid JSON and whose second entry is not an object.
BrokenDocument ==
    [ metadata |-> [ name |-> "broken", custom_tag |-> UserTag,
                     tag_position |-> "replace", created_at |-> <<9>>,
                     num_samples |-> 2, all_instrumental |-> FALSE ],
      samples |->
        << JsonObject([ id |-> <<"x", "2">>,
                        audio_path |-> <<"p", "/", "a", ".", "w", "a", "v">>,
                        filename |-> <<"a", ".", "w", "a", "v">>,
                        raw_lyrics |-> EMPTY, formatted_lyrics |-> EMPTY ]),
           JsonString >> ]

\* The dataset_path arguments: the path save_dataset writes, the two files above,
\* and a path with no file.
PathArgs == {"dataset.json", "legacy.json", "broken.json", "nowhere.json"}

\* What is at a path.
FileContent(dataset_path) ==
    CASE dataset_path = "dataset.json" -> disk
      [] dataset_path = "legacy.json" -> JsonDisk(LegacyDocument)
      [] dataset_path = "broken.json" -> JsonDisk(BrokenDocument)
      [] OTHER -> NoDisk

load_dataset(dataset_path) ==
    /\ CanCall
    /\ Tick
    /\ UNCHANGED <<current_dir, disk, outdir, batch>>
    /\ LET file == FileContent(dataset_path)
           returned(status) ==
               [Returned("load_dataset", 0, status) EXCEPT !.dataset_path = dataset_path]
       IN  IF file.kind = "absent"
           THEN /\ last' = returned(<<MARK_FAIL, " Dataset not found">>)
                /\ UNCHANGED <<samples, metadata, uuid_ctr>>
           ELSE IF file.kind = "malformed"
           THEN /\ last' = returned(<<MARK_FAIL, " Failed to load dataset: ">>)
                /\ UNCHANGED <<samples, metadata, uuid_ctr>>
           ELSE LET data == file.data[1]
                    entries == Get(data, "samples", <<>>)
                    \* from_dict raises at the first entry that is not an object
                    bad == {k \in 1..Len(entries) : entries[k].type # "object"}
                    loaded == IF bad = {} THEN Len(entries)
                              ELSE (CHOOSE k \in bad : \A j \in bad : k <= j) - 1
                IN  /\ metadata' =
                           IF "metadata" \in DOMAIN data
                           THEN LET meta_dict == data.metadata
                                IN  NewMetadata(Get(meta_dict, "name", "untitled"),
                                                Get(meta_dict, "custom_tag", EMPTY),
                                                Get(meta_dict, "tag_position", "prepend"),
                                                Get(meta_dict, "created_at", EMPTY),
                                                Get(meta_dict, "num_samples", 0),
                                                Get(meta_dict, "all_instrumental", TRUE),
                                                clock')
                           ELSE metadata
                    /\ samples' = [i \in 1..loaded |->
                                     from_dict(entries[i].fields,
                                               uuid_ctr + DrawsBefore(entries, i - 1))]
                    /\ uuid_ctr' = uuid_ctr + DrawsBefore(entries, loaded)
                    /\ last' = IF bad = {}
                               THEN returned(<<MARK_OK, " Loaded">>)
                               ELSE returned(<<MARK_FAIL, " Failed to load dataset: ">>)

-----------------------------------------------------------------------------
(* DatasetBuilder.preprocess_to_tensors *)

\* The output_dir argument.
OUTPUT_DIR == <<"o", "u", "t">>

\* os.path.join(output_dir, f"{sample.id}.pt")
TensorPath(output_dir, id) == output_dir \o <<"/">> \o id \o <<".", "p", "t">>

Min(a, b) == IF a < b THEN a ELSE b

\* Step 8: the length (dimension 1) of src_latents, built from a silence latent of
\* length silence_length for a target of length latent_length.
SrcLatentRows(latent_length, silence_length) ==
    LET sliced == Min(silence_length, latent_length)  \* silence_latent[:, :latent_length, :]
    IN  IF sliced < latent_length
        THEN LET pad_len == latent_length - sliced
             IN  sliced + Min(silence_length, pad_len)  \* cat with silence_latent[:, :pad_len, :]
        ELSE IF sliced > latent_length THEN latent_length
        ELSE sliced

\* The dit_handler argument: None, a handler whose model is None, an initialized one.
HandlerArgs == {"None", "no_model", "ready"}

\* The handler check with `dit_handler.model is None` left out.
Uninitialized_model_unchecked(dit_handler) == dit_handler = "None"

\* dit_handler is None or dit_handler.model is None
Uninitialized(dit_handler) == dit_handler \in {"None", "no_model"}

\* The lengths of the handler's silence latent, and of the latents the VAE returns.
SilenceLengths == {1, 2}
LatentLengths == {1, 3}

\* One run of the collaborators on one labeled sample:
\*   callback       the progress callback returns ("ok"), raises at its first call
\*                  for the sample and returns at the next one ("raises_once"),
\*                  or raises at every call ("raises")
\*   backend        the audio loading and the encoders return, or one of them raises
\*   latent_length  the length of the latent the VAE returns
PreRun(callback, backend, latent_length) ==
    [callback |-> callback, backend |-> backend, latent_length |-> latent_length]

PreprocessRuns ==
    { PreRun("ok", "encodes", t) : t \in LatentLengths }
    \cup { PreRun("ok", "raises", 0),
           PreRun("raises_once", "encodes", 1),
           PreRun("raises", "encodes", 1) }

\* labeled_samples = [s for s in self.samples if s.labeled]
LabeledSamples == SelectSeq(samples, LAMBDA s : s.labeled)

\* The try block of the loop for one sample: "saved", or what raised in it.
\* torch.cat([src_latents, chunk_masks], dim=-1) raises when the two lengths differ.
ProcessItem(run, silence_length) ==
    IF run.callback # "ok" THEN "callback_raised"
    ELSE IF run.backend = "raises" THEN "backend_raised"
    ELSE IF SrcLatentRows(run.latent_length, silence_length) # run.latent_length
    THEN "size_mismatch"
    ELSE "saved"

\* What the loop has done to one sample: its outcome and, when the VAE encoded it,
\* the three lengths of step 8.
Item(sample, run, silence_length, outcome) ==
    LET encoded == run.callback = "ok" /\ run.backend = "encodes"
    IN  [ id |-> sample.id, outcome |-> outcome, encoded |-> encoded,
          latent_length |-> IF encoded THEN run.latent_length ELSE 0,
          silence_length |-> IF encoded THEN silence_length ELSE 0,
          src_rows |-> IF encoded THEN SrcLatentRows(run.latent_length, silence_length)
                       ELSE 0 ]

\* The loop after k samples: the paths appended, the counts, the files written, and
\* whether the progress callback raised in the except block, which ends the call.
RECURSIVE PreprocessLoop(_, _, _, _, _)
PreprocessLoop(labeled_samples, output_dir, runs, silence_length, k) ==
    IF k = 0
    THEN [ output_paths |-> <<>>, success_count |-> 0, fail_count |-> 0,
           files |-> {}, items |-> <<>>, raised |-> FALSE ]
    ELSE LET before  == PreprocessLoop(labeled_samples, output_dir, runs,
                                       silence_length, k - 1)
             sample  == labeled_samples[k]
             outcome == ProcessItem(runs[k], silence_length)
             item    == Item(sample, runs[k], silence_length, outcome)
             output_path == TensorPath(output_dir, sample.id)
         IN  IF before.raised THEN before
             ELSE IF outcome = "saved"
             THEN [before EXCEPT !.output_paths = Append(@, output_path),
                                 !.success_count = @ + 1,
                                 !.files = @ \cup {output_path},
                                 !.items = Append(@, item)]
             ELSE [before EXCEPT !.fail_count = @ + 1,
                                 !.items = Append(@, item),
                                 !.raised = (runs[k].callback = "raises")]

CallbackMessage == <<"callback failed">>

preprocess_to_tensors(dit_handler, output_dir, silence_length, runs) ==
    /\ CanCall
    /\ Tick
    /\ UNCHANGED <<samples, metadata, current_dir, disk, uuid_ctr, batch>>
    /\ LET labeled_samples == LabeledSamples
           early(msg) ==
               /\ last' = [Returned("preprocess_to_tensors", 0, <<MARK_FAIL, msg>>)
                              EXCEPT !.dit_handler = dit_handler]
               /\ UNCHANGED outdir
       IN  IF ~Truthy(samples) THEN early(" No samples to preprocess")
           ELSE IF ~Truthy(labeled_samples) THEN early(" No labeled samples to preprocess")
           ELSE IF Uninitialized(dit_handler) THEN early(" Model not initialized")
           ELSE LET loop == PreprocessLoop(labeled_samples, output_dir, runs,
                                           silence_length, Len(labeled_samples))
                    manifest == [ metadata |-> metadata,
                                  samples |-> loop.output_paths,
                                  num_samples |-> Len(loop.output_paths) ]
                    status == IF loop.raised THEN CallbackMessage
                              ELSE <<MARK_OK, " Preprocessed">>
                                     \o (IF loop.fail_count > 0 THEN <<" (failed)">>
                                         ELSE <<>>)
                IN  /\ outdir' = [ exists |-> TRUE,
                                   files |-> outdir.files \cup loop.files,
                                   manifest |-> IF loop.raised THEN outdir.manifest
                                                ELSE <<manifest>> ]
                    /\ last' = [Returned("preprocess_to_tensors", 0, status) EXCEPT
                                    !.dit_handler = dit_handler,
                                    !.raised = loop.raised,
                                    !.success_count = loop.success_count,
                                    !.fail_count = loop.fail_count,
                                    !.total = Len(labeled_samples),
                                    !.output_paths = IF loop.raised THEN <<>>
                                                     ELSE loop.output_paths,
                                    !.items = loop.items]

-----------------------------------------------------------------------------
Next ==
    \/ \E directory \in ScanArgs : scan_directory(directory)
    \/ \E sample_idx \in IndexArgs, args \in LabelArgs :
          label_sample(sample_idx, args.run, args.format_lyrics)
    \/ \E format_lyrics \in BOOLEAN : label_all_samples(format_lyrics)
    \/ \E run \in EngineRuns : label_all_step(run)
    \/ \E sample_idx \in IndexArgs, kwargs \in UpdateArgs : update_sample(sample_idx, kwargs)
    \/ \E args \in TagArgs : set_custom_tag(args.custom_tag, args.tag_position)
    \/ \E is_instrumental \in BOOLEAN : set_all_instrumental(is_instrumental)
    \/ \E args \in SaveArgs : save_dataset(args.dataset_name, args.io)
    \/ \E dataset_path \in PathArgs : load_dataset(dataset_path)
    \/ \E dit_handler \in HandlerArgs, silence_length \in SilenceLengths,
          runs \in [1..Len(LabeledSamples) -> PreprocessRuns] :
          preprocess_to_tensors(dit_handler, OUTPUT_DIR, silence_length, runs)

Spec == Init /\ [][Next]_vars

\* The calls that fill, edit, store and reload a collection.
NextStore ==
    \/ \E directory \in ScanArgs : scan_directory(directory)
    \/ \E sample_idx \in IndexArgs, kwargs \in UpdateArgs : update_sample(sample_idx, kwargs)
    \/ \E args \in SaveArgs : save_dataset(args.dataset_name, args.io)
    \/ \E dataset_path \in PathArgs : load_dataset(dataset_path)

\* Runs of one more call, made of those calls.
SpecLong == InitLong /\ [][NextStore]_vars

-----------------------------------------------------------------------------
(* Which call a step is, and what a state shows of the last call *)

\* The step is a call of `op` (every call advances the clock and records itself).
IsCall(op) == clock' = clock + 1 /\ last'.op = op

\* The state is the one a call of `op` returned in.
After(op) == last.op = op /\ ~batch.active

\* The last scan_directory call found its directory and scanned it.
ScanRan ==
    /\ After("scan_directory")
    /\ last.status[2] \notin {" Directory not found", " Not a directory"}

\* The step is label_sample on a valid index i, called directly or by the loop of
\* label_all_samples, and it returns a success (ok) or a failure (~ok) status.
LabelStep(i, ok) ==
    \/ /\ IsCall("label_sample")
       /\ ValidIndex(i) /\ last'.idx = i
       /\ IsSuccess(last'.status) = ok
    \/ /\ batch.active /\ batch.i = i
       /\ ~last'.raised
       /\ LET after == IF batch'.active THEN batch' ELSE last'
          IN  IF ok THEN after.true_success = batch.true_success + 1
              ELSE after.true_fail = batch.true_fail + 1

-----------------------------------------------------------------------------
(* C1 *)

\* C1: in every reachable state, every sample with is_instrumental = true has
\* lyrics = "[Instrumental]" and language = "unknown".
C1_InstrumentalInvariant ==
    \A i \in 1..Len(samples) :
        samples[i].is_instrumental =>
            samples[i].lyrics = INSTRUMENTAL /\ samples[i].language = UNKNOWN

(* C2 *)

\* C2: a label_sample call on a valid index that returns a failure status leaves
\* every field of that sample as it was before the call.
C2_NoPartialCommit ==
    [][ \A i \in 1..Len(samples) :
          (IsCall("label_sample") /\ last'.idx = i /\ ~IsSuccess(last'.status))
             => samples'[i] = samples[i] ]_vars

(* C3 *)

\* C3: the labeled flag of a sample goes from false to true only in a label_sample
\* call on that sample that returns a success status.
C3_LabeledOnlyByLabeling ==
    [][ \A i \in 1..Len(samples) :
          ( /\ i <= Len(samples')
            /\ samples'[i].id = samples[i].id
            /\ ~samples[i].labeled
            /\ samples'[i].labeled ) => LabelStep(i, TRUE) ]_vars

(* C4 *)

\* C4: when label_all_samples returns from its loop over N samples, it has passed
\* every index to label_sample once, in order, its success count is the number of
\* label_sample calls that returned a success status, and its failure count the
\* number that returned a failure status.
C4_BatchCounts ==
    (After("label_all_samples") /\ ~last.raised /\ IsSuccess(last.status)) =>
        /\ last.attempts = [i \in 1..last.total |-> i]
        /\ last.total = Len(samples)
        /\ last.success_count = last.true_success
        /\ last.fail_count = last.true_fail

(* C5 *)

\* C5: a load_dataset of the file a successful save_dataset has just written gives
\* a collection of the same length and order, every sample equal to the saved one
\* in every field but caption, which is get_full_caption(tag_position) of it.
C5_RoundTrip ==
    [][ ( /\ After("save_dataset") /\ IsSuccess(last.status)
          /\ IsCall("load_dataset") /\ last'.dataset_path = "dataset.json"
          /\ IsSuccess(last'.status) )
        => /\ Len(samples') = Len(samples)
           /\ \A i \in 1..Len(samples) :
                samples'[i] = [samples[i] EXCEPT
                                 !.caption = get_full_caption(samples[i],
                                                              metadata.tag_position)]
      ]_vars

(* C6 *)

\* The sidecar of an audio file: the file with its name and the extension .txt.
SidecarPath(audio_path) == SplitextRoot(audio_path) \o <<".", "t", "x", "t">>
HasSidecar(audio_path) == SidecarPath(audio_path) \in FilePaths
SidecarText(audio_path) == Strip(FileAt(SidecarPath(audio_path)).text)
SidecarReadable(audio_path) == FileAt(SidecarPath(audio_path)).readable

\* What C6 says of a sample a scan created, with `present`: whether the file counts
\* as having a sidecar with lyrics in it.
ScannedAs(s, present) ==
    IF present
    THEN /\ s.is_instrumental = FALSE
         /\ s.raw_lyrics = SidecarText(s.audio_path)
         /\ s.lyrics = SidecarText(s.audio_path)
    ELSE /\ s.lyrics = INSTRUMENTAL
         /\ s.raw_lyrics = EMPTY
         /\ s.is_instrumental = metadata.all_instrumental

\* C6 as stated: after a scan, a sample of a file whose sidecar .txt has text left
\* after trimming is not instrumental and has that text as raw_lyrics and lyrics,
\* whatever all_instrumental is; a sample of a file with an absent or empty sidecar
\* has the sentinel as lyrics, empty raw_lyrics and is_instrumental = all_instrumental.
C6_SidecarAsStated ==
    ScanRan =>
        \A i \in 1..Len(samples) :
            ScannedAs(samples[i],
                      /\ HasSidecar(samples[i].audio_path)
                      /\ Truthy(SidecarText(samples[i].audio_path)))

\* C6 amended: the first case is a sidecar that can be read and has text left after
\* trimming; a sidecar that cannot be read counts as absent.
C6_SidecarReadable ==
    ScanRan =>
        \A i \in 1..Len(samples) :
            ScannedAs(samples[i],
                      /\ HasSidecar(samples[i].audio_path)
                      /\ SidecarReadable(samples[i].audio_path)
                      /\ Truthy(SidecarText(samples[i].audio_path)))

\* Reached: a scan with all_instrumental = true that made a sample from a file with
\* lyrics in its sidecar, and one from a file with none.
C6_Witness ==
    /\ ScanRan /\ IsSuccess(last.status)
    /\ metadata.all_instrumental
    /\ \E i, j \in 1..Len(samples) :
          /\ ~samples[i].is_instrumental /\ samples[i].raw_lyrics = <<"l", "a">>
          /\ samples[j].is_instrumental /\ ~HasSidecar(samples[j].audio_path)

(* C7 *)

\* C7: after a scan_directory call on an existing directory, every record of the
\* collection was created by that scan, and metadata.num_samples is the number of
\* records, also when the scan found no audio file.
C7_ScanResets ==
    ScanRan =>
        /\ \A i \in 1..Len(samples) :
              /\ samples[i].audio_path \in WalkAudioFiles(current_dir)
              /\ samples[i].id = Uuid(uuid_ctr - Len(samples) + i - 1)
        /\ metadata.num_samples = Len(samples)

(* C8 *)

\* The tag composition rule as C8 states it.
ComposeWithFallback(first, second) ==
    IF Truthy(first) /\ Truthy(second) THEN first \o <<",", " ">> \o second
    ELSE IF Truthy(first) THEN first
    ELSE IF Truthy(second) THEN second
    ELSE <<>>

RuleAsStated(caption, tag, tag_position) ==
    CASE tag_position = "prepend" -> ComposeWithFallback(tag, caption)
      [] tag_position = "append" -> ComposeWithFallback(caption, tag)
      [] tag_position = "replace" -> tag
      [] OTHER -> caption

\* The rule with replace falling back to the caption when the tag is empty.
RuleAmended(caption, tag, tag_position) ==
    CASE tag_position = "prepend" -> ComposeWithFallback(tag, caption)
      [] tag_position = "append" -> ComposeWithFallback(caption, tag)
      [] tag_position = "replace" -> IF Truthy(tag) THEN tag ELSE caption
      [] OTHER -> caption

\* C8 as stated: get_full_caption follows the rule for every sample and position.
C8_RuleAsStated ==
    \A i \in 1..Len(samples), pos \in TagPositions :
        get_full_caption(samples[i], pos)
            = RuleAsStated(samples[i].caption, samples[i].custom_tag, pos)

\* C8 amended: replace gives the tag when it is non-empty, and the caption
\* unchanged when the tag is empty; the other positions are as stated.
C8_RuleAmended ==
    \A i \in 1..Len(samples), pos \in TagPositions :
        get_full_caption(samples[i], pos)
            = RuleAmended(samples[i].caption, samples[i].custom_tag, pos)

\* Reached: a collection with a sample that has a tag and a caption, and one with
\* a caption and no tag.
C8_Witness ==
    \E i, j \in 1..Len(samples) :
        /\ Truthy(samples[i].custom_tag) /\ Truthy(samples[i].caption)
        /\ ~Truthy(samples[j].custom_tag) /\ Truthy(samples[j].caption)

(* C9 *)

FrameFields ==
    {"duration", "raw_lyrics", "id", "audio_path", "filename", "is_instrumental",
     "custom_tag"}

\* C9: label_sample and label_all_samples, succeeding or failing, leave duration,
\* raw_lyrics, id, audio_path, filename, is_instrumental and custom_tag of every
\* sample as they were.
C9_LabelingFrame ==
    [][ (IsCall("label_sample") \/ IsCall("label_all_samples") \/ batch.active)
        => /\ Len(samples') = Len(samples)
           /\ \A i \in 1..Len(samples), f \in FrameFields :
                 samples'[i][f] = samples[i][f] ]_vars

\* Reached: label_sample has succeeded on a sample with a duration and raw lyrics.
C9_Witness ==
    /\ After("label_sample") /\ IsSuccess(last.status)
    /\ samples[last.idx].labeled
    /\ samples[last.idx].duration = 10
    /\ samples[last.idx].raw_lyrics = <<"l", "a">>
    /\ samples[last.idx].lyrics = LlmLyrics

(* C10 *)

LyricsBranch(s, has_raw, format_lyrics, llm_lyrics) ==
    IF has_raw
    THEN IF format_lyrics
         THEN /\ s.formatted_lyrics = llm_lyrics
              /\ s.lyrics = (IF llm_lyrics # <<>> THEN llm_lyrics ELSE s.raw_lyrics)
         ELSE /\ s.lyrics = s.raw_lyrics
              /\ s.formatted_lyrics = <<>>
    ELSE /\ s.lyrics = llm_lyrics
         /\ s.formatted_lyrics = llm_lyrics

\* The state is the one a successful label_sample on a non-instrumental sample
\* returned in (the call changes neither is_instrumental nor raw_lyrics).
LabeledVocal ==
    /\ After("label_sample") /\ IsSuccess(last.status)
    /\ ~samples[last.idx].is_instrumental

AudioExtensions ==
    { <<"w", "a", "v">>, <<"m", "p", "3">>, <<"f", "l", "a", "c">>,
      <<"o", "g", "g">>, <<"o", "p", "u", "s">> }

\* The extension of a file: what follows the last "." of its name.
ExtensionOf(p) ==
    LET name == Basename(p)
        dots == {i \in 1..Len(name) : name[i] = "."}
    IN  IF dots = {} THEN <<>>
        ELSE SubSeq(name, (CHOOSE i \in dots : \A j \in dots : j <= i) + 1, Len(name))

\* The files under a root, at any depth, with an audio extension in any case.
AudioFilesUnder(root) ==
    { p \in FilePaths : /\ StartsWith(p, root \o <<"/">>)
                        /\ Lower(ExtensionOf(p)) \in AudioExtensions }

\* C12: after a scan of an existing directory, every audio file under it, at any
\* depth and with its extension in any case, has exactly one record, every record
\* is of such a file, and the records are in ascending order of full path; a file
\* whose duration or lyrics cannot be read has its record like any other.
C12_ScanComplete ==
    ScanRan =>
        /\ \A p \in AudioFilesUnder(current_dir) :
              Cardinality({i \in 1..Len(samples) : samples[i].audio_path = p}) = 1
        /\ \A i \in 1..Len(samples) : samples[i].audio_path \in AudioFilesUnder(current_dir)
        /\ \A i, j \in 1..Len(samples) :
              i < j => StrLess(samples[i].audio_path, samples[j].audio_path)

\* Reached: a scan that made two records, the first of a file in a subdirectory
\* whose audio and sidecar both cannot be read, the second of a file of the root.
C12_Witness ==
    /\ ScanRan /\ IsSuccess(last.status)
    /\ Len(samples) = 2
    /\ ~FileAt(samples[1].audio_path).readable
    /\ HasSidecar(samples[1].audio_path) /\ ~SidecarReadable(samples[1].audio_path)
    /\ samples[1].duration = 0
    /\ LastSep(samples[1].audio_path) > LastSep(samples[2].audio_path)
    /\ samples[2].duration = 2

(* C13 *)

\* C13: a preprocess_to_tensors call with an empty collection, with no labeled
\* sample, or with a handler that is None or has no model returns an empty list of
\* paths and a failure status, and leaves the output directory as it was: it
\* creates no directory, no tensor file and no manifest.
C13_FailFast ==
    [][ ( /\ IsCall("preprocess_to_tensors")
          /\ \/ samples = <<>>
             \/ \A i \in 1..Len(samples) : ~samples[i].labeled
             \/ last'.dit_handler \in {"None", "no_model"} )
        => /\ ~last'.raised
           /\ last'.output_paths = <<>>
           /\ last'.status # <<>> /\ last'.status[1] = MARK_FAIL
           /\ outdir' = outdir ]_vars

\* Reached: preprocess_to_tensors was called on a collection with a labeled sample
\* and a handler without a model, and there is still no output directory.
C13_Witness ==
    /\ After("preprocess_to_tensors")
    /\ last.dit_handler = "no_model"
    /\ \E i \in 1..Len(samples) : samples[i].labeled
    /\ ~IsSuccess(last.status)
    /\ ~outdir.exists /\ outdir.files = {} /\ outdir.manifest = <<>>

(* C14 *)

\* The items of the last preprocess_to_tensors call whose tensor file was saved.
SavedItems == SelectSeq(last.items, LAMBDA item : item.outcome = "saved")

\* C14: when preprocess_to_tensors has passed its checks and written the manifest,
\* the call has gone through the labeled samples in collection order, the manifest
\* lists one path per sample that was saved, in that order, the path made of the
\* sample's id; the paths are distinct, each is a file of the output directory, and
\* num_samples is their number.
C14_ManifestExact ==
    (After("preprocess_to_tensors") /\ IsSuccess(last.status)) =>
        /\ outdir.manifest # <<>>
        /\ LET manifest == outdir.manifest[1]
               paths == manifest.samples
           IN  /\ [k \in 1..Len(last.items) |-> last.items[k].id]
                     = [k \in 1..Len(LabeledSamples) |-> LabeledSamples[k].id]
               /\ paths = [k \in 1..Len(SavedItems) |->
                             TensorPath(OUTPUT_DIR, SavedItems[k].id)]
               /\ paths = last.output_paths
               /\ \A i, j \in 1..Len(paths) : i # j => paths[i] # paths[j]
               /\ \A i \in 1..Len(paths) : paths[i] \in outdir.files
               /\ manifest.num_samples = Len(paths)

(* C15 *)

\* The entries of the document the last load_dataset call read.
LoadedEntries == Get(FileContent(last.dataset_path).data[1], "samples", <<>>)

\* The file is a JSON document whose entries are objects that lack raw_lyrics and
\* formatted_lyrics or carry a key that is no field.
IsLegacyFile(file) ==
    /\ file.kind = "json"
    /\ LET entries == Get(file.data[1], "samples", <<>>)
       IN  \A k \in 1..Len(entries) :
              /\ entries[k].type = "object"
              /\ \/ {"raw_lyrics", "formatted_lyrics"} \cap DOMAIN entries[k].fields = {}
                 \/ (DOMAIN entries[k].fields) \ FieldNames # {}

C16_BatchCatchesAll ==
    /\ After("label_all_samples") =>
          /\ ~last.raised
          /\ Len(last.attempts) = last.total
    /\ (After("preprocess_to_tensors") /\ last.total > 0
          /\ last.dit_handler = "ready") =>
          /\ ~last.raised
          /\ Len(last.items) = last.total
          /\ last.success_count + last.fail_count = last.total

(* C17 *)

\* C17: for every labeled sample the VAE has encoded to a latent of length T >= 1,
\* with a silence latent of length S >= 1, the source latent has length T, and the
\* sample does not fail for a length mismatch.
C17_SourceLength ==
    After("preprocess_to_tensors") =>
        \A k \in 1..Len(last.items) :
            LET item == last.items[k]
            IN  (item.encoded /\ item.latent_length >= 1 /\ item.silence_length >= 1)
                  => /\ item.src_rows = item.latent_length
                     /\ item.outcome # "size_mismatch"

(* C18 *)

\* C18: a load_dataset call that returns a failure status leaves the collection
\* and the dataset metadata as they were before the call.
C18_FailedLoadKeepsState ==
    [][ (IsCall("load_dataset") /\ ~IsSuccess(last'.status))
        => samples' = samples /\ metadata' = metadata ]_vars

====
